---- MODULE Spec2Model ----
(***************************************************************************)
(* Model of the Stellaris WASM miner (wasm-miner/src/lib.rs): the address  *)
(* decoder, the block-content encoders, the difficulty predicate and the   *)
(* bounded nonce search of mine_range.                                      *)
(*                                                                         *)
(* Representation.  A string (&str) is the sequence of its UTF-8 bytes; a  *)
(* byte vector (Vec<u8>) is a sequence of 0..255.  A u32 is a record of    *)
(* two 16-bit limbs [hi, lo] (value hi * 2^16 + lo), so that the full      *)
(* 32-bit width is kept.  The f64 difficulty is given in tenths            *)
(* (difficulty = 45 stands for 4.5); for such values the f64 operations of *)
(* the code (% 1.0, ceil, the casts) agree with the integer arithmetic     *)
(* used here.                                                              *)
(***************************************************************************)
EXTENDS Integers, Sequences, FiniteSets, TLC

VARIABLES
    previous_hash,      \* mine_range / build_block_content argument (&str)
    pool_address,       \* argument (&str)
    merkle_root,        \* argument (&str)
    timestamp,          \* argument (u32)
    difficulty,         \* argument (f64), in tenths
    nonce_start,        \* mine_range argument (u32)
    nonce_end,          \* mine_range argument (u32)
    max_hashes,         \* mine_range argument (u32)
    pc,                 \* position of the call
    chunk,              \* mine_range local / check_difficulty argument
    prefix,             \* mine_range local
    end,                \* mine_range local
    nonce,              \* loop variable of mine_range / build_block_content argument
    block_content,      \* mine_range loop local: the candidate last hashed
    hash_hex,           \* mine_range loop local / check_difficulty argument
    best_hash,          \* mine_range local
    best_nonce,         \* mine_range local
    hashes_computed,    \* mine_range local
    examined,           \* history of the loop: <<[nonce, hash]>> per iteration
    result,             \* what mine_range returned
    built,              \* what build_block_content returned
    satisfied           \* what check_difficulty returned

vars == <<previous_hash, pool_address, merkle_root, timestamp, difficulty,
          nonce_start, nonce_end, max_hashes, pc, chunk, prefix, end, nonce,
          block_content, hash_hex, best_hash, best_nonce, hashes_computed,
          examined, result, built, satisfied>>

template == <<previous_hash, pool_address, merkle_root, timestamp, difficulty>>
range == <<nonce_start, nonce_end, max_hashes>>
locals == <<chunk, prefix, end, nonce, block_content, hash_hex, best_hash,
            best_nonce, hashes_computed, examined>>

----------------------------------------------------------------------------
(* Unsigned 32-bit integers as two 16-bit limbs.                           *)

Limb == 2^16

U32(h, l) == [hi |-> h, lo |-> l]

U32Zero == U32(0, 0)

U32One == U32(0, 1)

U32Max == U32(Limb - 1, Limb - 1)

U32Lt(a, b) == a.hi < b.hi \/ (a.hi = b.hi /\ a.lo < b.lo)

U32Le(a, b) == a = b \/ U32Lt(a, b)

U32Min(a, b) == IF U32Le(a, b) THEN a ELSE b

\* a + b modulo 2^32
WrappingAdd(a, b) ==
    LET l == a.lo + b.lo
        h == a.hi + b.hi + (l \div Limb)
    IN  U32(h % Limb, l % Limb)

\* u32::saturating_add
SaturatingAdd(a, b) ==
    LET l == a.lo + b.lo
        h == a.hi + b.hi + (l \div Limb)
    IN  IF h >= Limb THEN U32Max ELSE U32(h, l % Limb)

\* u32::to_le_bytes
U32LeBytes(a) == <<a.lo % 256, a.lo \div 256, a.hi % 256, a.hi \div 256>>

\* u16::to_le_bytes
U16LeBytes(n) == <<n % 256, n \div 256>>

----------------------------------------------------------------------------
(* Strings and hexadecimal.                                                *)

Rep(c, n) == [i \in 1..n |-> c]

\* str < str: byte-wise lexicographic order, a proper prefix being smaller
StrLt(a, b) ==
    LET n == IF Len(a) < Len(b) THEN Len(a) ELSE Len(b)
        diff == {i \in 1..n : a[i] # b[i]}
    IN  IF diff = {} THEN Len(a) < Len(b)
        ELSE LET k == CHOOSE i \in diff : \A j \in diff : i <= j
             IN  a[k] < b[k]

\* str::starts_with
StartsWith(s, p) == Len(p) <= Len(s) /\ SubSeq(s, 1, Len(p)) = p

\* value of a hexadecimal digit, -1 for any other byte (hex::decode takes
\* both cases)
HexVal(c) ==
    IF c \in 48..57 THEN c - 48
    ELSE IF c \in 97..102 THEN c - 87
    ELSE IF c \in 65..70 THEN c - 55
    ELSE -1

\* the lowercase hexadecimal digit of a nibble ("0123456789abcdef")
HexChar(n) == IF n < 10 THEN 48 + n ELSE 87 + n

Ok(v) == [ok |-> TRUE, val |-> v, err |-> ""]

Err(e) == [ok |-> FALSE, val |-> <<>>, err |-> e]

\* hex::decode: fails on an odd length or on a byte that is no hex digit
HexDecode(s) ==
    IF Len(s) % 2 = 1 \/ \E i \in 1..Len(s) : HexVal(s[i]) = -1
    THEN Err("hex")
    ELSE Ok([i \in 1..(Len(s) \div 2) |->
                16 * HexVal(s[2 * i - 1]) + HexVal(s[2 * i])])

\* hex::encode: two lowercase digits per byte
HexEncode(bytes) ==
    [i \in 1..(2 * Len(bytes)) |->
        IF i % 2 = 1 THEN HexChar(bytes[(i + 1) \div 2] \div 16)
        ELSE HexChar(bytes[i \div 2] % 16)]

----------------------------------------------------------------------------
(* Base58 (bs58::decode with the default, Bitcoin, alphabet).              *)

\* index of a byte in "123456789ABCDEFGHJKLMNPQRSTUVWXYZabcdefghijkmnopqrstuvwxyz",
\* -1 for a byte outside the alphabet (0, O, I, l, punctuation, non-ASCII)
B58Val(c) ==
    IF c \in 49..57 THEN c - 49
    ELSE IF c \in 65..72 THEN c - 56
    ELSE IF c \in 74..78 THEN c - 57
    ELSE IF c \in 80..90 THEN c - 58
    ELSE IF c \in 97..107 THEN c - 64
    ELSE IF c \in 109..122 THEN c - 65
    ELSE -1

\* one input digit: out := out * 58 + carry on the little-endian bytes of out,
\* from position i on; the carry left over is pushed as further bytes
RECURSIVE B58MulAdd(_, _, _)
B58MulAdd(out, i, carry) ==
    IF i <= Len(out)
    THEN LET v == carry + out[i] * 58
         IN  B58MulAdd([out EXCEPT ![i] = v % 256], i + 1, v \div 256)
    ELSE IF carry > 0
    THEN B58MulAdd(Append(out, carry % 256), i + 1, carry \div 256)
    ELSE out

\* the digits of s from position i on, accumulated into out (little-endian)
RECURSIVE B58Digits(_, _, _)
B58Digits(s, i, out) ==
    IF i > Len(s) THEN out
    ELSE B58Digits(s, i + 1, B58MulAdd(out, 1, B58Val(s[i])))

\* the number of leading '1' characters (the alphabet's zero digit)
RECURSIVE B58LeadingZeros(_, _)
B58LeadingZeros(s, i) ==
    IF i <= Len(s) /\ s[i] = 49 THEN 1 + B58LeadingZeros(s, i + 1) ELSE 0

Reverse(s) == [i \in 1..Len(s) |-> s[Len(s) + 1 - i]]

\* bs58::decode(..).into_vec(): fails on a byte outside the alphabet; each
\* leading '1' gives one leading zero byte
Base58Decode(s) ==
    IF \E i \in 1..Len(s) : B58Val(s[i]) = -1
    THEN Err("base58")
    ELSE Ok(Reverse(B58Digits(s, 1, <<>>) \o Rep(0, B58LeadingZeros(s, 1))))

\* string_to_bytes: hexadecimal first, then base58
string_to_bytes(address) ==
    LET h == HexDecode(address)
    IN  IF h.ok THEN Ok(h.val)
        ELSE LET b == Base58Decode(address)
             IN  IF b.ok THEN Ok(b.val) ELSE Err("Invalid address format")

----------------------------------------------------------------------------
(* The digest.  sha256 hands the bytes to the sha2 crate; the properties   *)
(* of the miner rest only on the digest being a fixed function of all the  *)
(* bytes that yields 32 bytes.  The compression below stands for it: it    *)
(* absorbs the length and every byte, position-dependently (a polynomial   *)
(* in 31 modulo 65521), and squeezes 32 bytes out (a linear congruential   *)
(* sequence modulo 65537).                                                 *)

DigestLen == 32

\* a * b modulo m for a, b <= 2^16, without leaving 32 bits
MulMod(a, b, m) == ((((a * (b \div 256)) % m) * 256) + a * (b % 256)) % m

RECURSIVE PowMod(_, _, _)
PowMod(b, e, m) ==
    IF e = 0 THEN 1
    ELSE LET h == PowMod(b, e \div 2, m)
             sq == MulMod(h, h, m)
         IN  IF e % 2 = 1 THEN MulMod(sq, b, m) ELSE sq

\* the sum of (data[i] + 7) * 31^(hi - i) for i in lo..hi, modulo 65521
RECURSIVE Poly(_, _, _)
Poly(data, lo, hi) ==
    IF lo > hi THEN 0
    ELSE IF lo = hi THEN (data[lo] + 7) % 65521
    ELSE LET mid == (lo + hi) \div 2
         IN  (MulMod(Poly(data, lo, mid), PowMod(31, hi - mid, 65521), 65521)
              + Poly(data, mid + 1, hi)) % 65521

Absorb(data) ==
    (MulMod(Len(data) % 65521, PowMod(31, Len(data), 65521), 65521)
     + Poly(data, 1, Len(data))) % 65521

\* the n-th term of x := (75 * x + 74) % 65537 from x
Squeeze(x, n) == (MulMod(PowMod(75, n, 65537), x + 1, 65537) + 65536) % 65537

sha256(data) ==
    LET x == Absorb(data)
    IN  [i \in 1..DigestLen |-> Squeeze(x, i) % 256]

----------------------------------------------------------------------------
(* check_difficulty                                                        *)

\* "0123456789abcdef"
charset == [i \in 1..16 |-> HexChar(i - 1)]

\* a faulty count: rounded down
CeilCountFloor(tenths) == (16 * (10 - tenths)) \div 10

\* (16.0 * (1.0 - decimal)).ceil() for decimal = tenths / 10
CeilCount(tenths) == (16 * (10 - tenths) + 9) \div 10

\* check_difficulty on an ASCII hash_hex (chars().nth is then the byte index)
check_difficulty(hash, chnk, diff) ==
    IF ~StartsWith(hash, chnk) THEN FALSE
    ELSE LET decimal == diff % 10
         IN  IF decimal > 0
             THEN LET count == CeilCount(decimal)
                      valid_chars == SubSeq(charset, 1, count)
                      idifficulty == diff \div 10
                  IN  IF idifficulty < Len(hash)
                      THEN \E k \in 1..Len(valid_chars) :
                              valid_chars[k] = hash[idifficulty + 1]
                      ELSE FALSE
             ELSE TRUE

----------------------------------------------------------------------------
(* build_block_content                                                     *)

\* (difficulty * 10.0) as u16: the cast truncates and saturates
DifficultyScaled(diff) == IF diff > 65535 THEN 65535 ELSE diff

\* a faulty version byte: pushed for a 20-byte address
VersionByteWhen20(address_bytes) ==
    IF Len(address_bytes) = 20 THEN <<2>> ELSE <<>>

\* the version byte, pushed if the address is compressed (33 bytes)
VersionByte(address_bytes) ==
    IF Len(address_bytes) = 33 THEN <<2>> ELSE <<>>

build_block_content(prev, addr, root, ts, diff, n) ==
    LET a == string_to_bytes(addr)
        p == HexDecode(prev)
        m == HexDecode(root)
    IN  IF ~a.ok THEN Err(a.err)
        ELSE IF ~p.ok THEN Err("Invalid previous_hash")
        ELSE IF ~m.ok THEN Err("Invalid merkle_root")
        ELSE Ok(HexEncode(VersionByte(a.val) \o p.val \o a.val \o m.val
                          \o U32LeBytes(ts)
                          \o U16LeBytes(DifficultyScaled(diff))
                          \o U32LeBytes(n)))

----------------------------------------------------------------------------
(* mine_range: the setup                                                   *)

\* difficulty as usize
ChunkLen(diff) == diff \div 10

\* previous_hash.len().saturating_sub(chunk_len)
ChunkStart(prev, diff) ==
    IF ChunkLen(diff) > Len(prev) THEN 0 ELSE Len(prev) - ChunkLen(diff)

\* str::is_char_boundary: the start, the end, or a byte that is no UTF-8
\* continuation byte (0x80..0xBF)
IsCharBoundary(s, i) ==
    i = 0 \/ i = Len(s) \/ (i < Len(s) /\ s[i + 1] \notin 128..191)

\* &previous_hash[start..] panics when start is not a char boundary
ChunkPanics(prev, diff) == ~IsCharBoundary(prev, ChunkStart(prev, diff))

\* a faulty chunk: the first chunk_len characters
MineChunkHead(prev, diff) ==
    SubSeq(prev, 1, Len(prev) - ChunkStart(prev, diff))

\* &previous_hash[start..]: the last chunk_len characters, or all of them
MineChunk(prev, diff) == SubSeq(prev, ChunkStart(prev, diff) + 1, Len(prev))

\* a faulty prefix: the address before previous_hash
MinePrefixBytesSwapped(address_bytes, prev_bytes, root_bytes, ts, diff) ==
    (IF Len(address_bytes) = 33 THEN <<2>> ELSE <<>>)
    \o address_bytes \o prev_bytes \o root_bytes
    \o U32LeBytes(ts) \o U16LeBytes(DifficultyScaled(diff))

\* the prefix built before the loop: everything but the nonce
MinePrefixBytes(address_bytes, prev_bytes, root_bytes, ts, diff) ==
    (IF Len(address_bytes) = 33 THEN <<2>> ELSE <<>>)
    \o prev_bytes \o address_bytes \o root_bytes
    \o U32LeBytes(ts) \o U16LeBytes(DifficultyScaled(diff))

\* faulty bounds: no hash budget; the sum wraps modulo 2^32
MineEndNoBudget(ns, ne, mh) == ne

MineEndWrapping(ns, ne, mh) == U32Min(ne, WrappingAdd(ns, mh))

\* min(nonce_end, nonce_start.saturating_add(max_hashes))
MineEnd(ns, ne, mh) == U32Min(ne, SaturatingAdd(ns, mh))

\* "f".repeat(64)
MaxHashHex == Rep(102, 64)

NoResult == [kind |-> "none"]

ErrResult(e) == [kind |-> "err", msg |-> e]

MinerResult(f, n, h, c, bn, bh) ==
    [kind |-> "ok", found |-> f, nonce |-> n, hash |-> h,
     hashes_computed |-> c, best_nonce |-> bn, best_hash |-> bh]

\* mine_range up to the loop: the address, the chunk, the prefix, the bound
MineSetup ==
    /\ pc = "call"
    /\ LET a == string_to_bytes(pool_address)
           p == HexDecode(previous_hash)
           m == HexDecode(merkle_root)
       IN  IF ~a.ok
           THEN /\ pc' = "error"
                /\ result' = ErrResult(a.err)
                /\ UNCHANGED locals
           ELSE IF ChunkPanics(previous_hash, difficulty)
           THEN /\ pc' = "panic"
                /\ UNCHANGED <<result, locals>>
           ELSE IF ~p.ok
           THEN /\ pc' = "error"
                /\ result' = ErrResult("Invalid previous_hash")
                /\ UNCHANGED locals
           ELSE IF ~m.ok
           THEN /\ pc' = "error"
                /\ result' = ErrResult("Invalid merkle_root")
                /\ UNCHANGED locals
           ELSE /\ pc' = "loop"
                /\ chunk' = MineChunk(previous_hash, difficulty)
                /\ prefix' = MinePrefixBytes(a.val, p.val, m.val,
                                             timestamp, difficulty)
                /\ best_hash' = MaxHashHex
                /\ best_nonce' = nonce_start
                /\ hashes_computed' = U32Zero
                /\ end' = MineEnd(nonce_start, nonce_end, max_hashes)
                /\ nonce' = nonce_start
                /\ UNCHANGED <<block_content, hash_hex, examined, result>>
    /\ UNCHANGED <<template, range, built, satisfied>>

----------------------------------------------------------------------------
(* mine_range: the loop                                                    *)

\* a faulty best-hash test: the comparison reversed
BetterGt(h, best) == StrLt(best, h)

\* hash_hex < best_hash
Better(h, best) == StrLt(h, best)

\* a faulty iteration: a satisfying nonce does not end the search
MineIterNoStop ==
    /\ pc = "loop"
    /\ U32Lt(nonce, end)
    /\ LET content == prefix \o U32LeBytes(nonce)
           h == HexEncode(sha256(content))
           count == WrappingAdd(hashes_computed, U32One)
           better == Better(h, best_hash)
       IN  /\ block_content' = content
           /\ hash_hex' = h
           /\ hashes_computed' = count
           /\ best_hash' = IF better THEN h ELSE best_hash
           /\ best_nonce' = IF better THEN nonce ELSE best_nonce
           /\ examined' = Append(examined, [nonce |-> nonce, hash |-> h])
           /\ nonce' = WrappingAdd(nonce, U32One)
           /\ UNCHANGED <<pc, result>>
    /\ UNCHANGED <<template, range, chunk, prefix, end, built, satisfied>>

\* one iteration of for nonce in nonce_start..end: hash the candidate, count
\* it, track the best, return on success.  hashes_computed cannot overflow:
\* the loop runs at most end - nonce_start < 2^32 times.
MineIter ==
    /\ pc = "loop"
    /\ U32Lt(nonce, end)
    /\ LET content == prefix \o U32LeBytes(nonce)
           h == HexEncode(sha256(content))
           count == WrappingAdd(hashes_computed, U32One)
           better == Better(h, best_hash)
           bh == IF better THEN h ELSE best_hash
           bn == IF better THEN nonce ELSE best_nonce
       IN  /\ block_content' = content
           /\ hash_hex' = h
           /\ hashes_computed' = count
           /\ best_hash' = bh
           /\ best_nonce' = bn
           /\ examined' = Append(examined, [nonce |-> nonce, hash |-> h])
           /\ IF check_difficulty(h, chunk, difficulty)
              THEN /\ pc' = "returned"
                   /\ result' = MinerResult(TRUE, nonce, h, count, bn, bh)
                   /\ UNCHANGED nonce
              ELSE /\ nonce' = WrappingAdd(nonce, U32One)
                   /\ UNCHANGED <<pc, result>>
    /\ UNCHANGED <<template, range, chunk, prefix, end, built, satisfied>>

\* the range is used up: no block found
MineExhausted ==
    /\ pc = "loop"
    /\ ~U32Lt(nonce, end)
    /\ pc' = "returned"
    /\ result' = MinerResult(FALSE, best_nonce, best_hash, hashes_computed,
                             best_nonce, best_hash)
    /\ UNCHANGED <<template, range, locals, built, satisfied>>

----------------------------------------------------------------------------
(* The arguments of the calls.                                             *)

\* nonce_end is up to MaxSpan past nonce_start, or 0, or 2^32 - 1
MaxSpan == 3

\* max_hashes is up to MaxBudget, or 2^32 - 1
MaxBudget == 2

\* the longest search taken
MaxLoop == 15

\* check_difficulty is called on 0.0 to MaxCheckDifficulty / 10
MaxCheckDifficulty == 60

\* 60 zeros and "dea6"
PrevHashValid == Rep(48, 60) \o <<100, 101, 97, 54>>

\* "1f": hexadecimal of one byte
PrevHashShort == <<49, 102>>

\* 66 hexadecimal characters: 33 bytes
PrevHashLong == Rep(48, 62) \o <<100, 101, 97, 54>>

\* 63 zeros and "g"
PrevHashNotHex == Rep(48, 63) \o <<103>>

\* 62 zeros and U+00E9, two bytes in UTF-8
PrevHashNonAscii == Rep(48, 62) \o <<195, 169>>

PrevHashes ==
    {PrevHashValid, PrevHashShort, PrevHashNotHex, PrevHashNonAscii}

BuildPrevHashes == PrevHashes \cup {PrevHashLong}

\* 40 hexadecimal characters: 20 bytes
AddressHex20 == HexEncode([i \in 1..20 |-> (37 * i + 11) % 256])

\* 66 hexadecimal characters: 33 bytes, the first of them 0x02
AddressHex33 == HexEncode([i \in 1..33 |-> IF i = 1 THEN 2 ELSE (29 * i + 3) % 256])

\* "11StV1DL6CwTryKyV": base58 of 13 bytes, two of them leading zeros
AddressBase58Short ==
    <<49, 49, 83, 116, 86, 49, 68, 76, 54, 67, 119, 84, 114, 121, 75, 121, 86>>

\* "0OIl": neither hexadecimal nor base58
AddressInvalid == <<48, 79, 73, 108>>

Addresses ==
    {AddressHex20, AddressHex33, AddressBase58Short, AddressInvalid}

MerkleRootValid == HexEncode([i \in 1..32 |-> (11 * i + 1) % 256])

\* "cd"
MerkleRootShort == <<99, 100>>

\* "xyz"
MerkleRootNotHex == <<120, 121, 122>>

MerkleRoots == {MerkleRootValid, MerkleRootNotHex}

BuildMerkleRoots == MerkleRoots \cup {MerkleRootShort}

\* 0x654321AB
Timestamps == {U32(25923, 8619)}

\* 0.0, 0.5, 1.0, 1.3, 2.0 and 70.0
Difficulties == {0, 5, 10, 13, 20, 700}

\* 0, 0x0000FFFE and 0xFFFFFFF0
NonceStarts == {U32Zero, U32(0, Limb - 2), U32(Limb - 1, Limb - 16)}

NonceEnds(ns) ==
    {SaturatingAdd(ns, U32(0, k)) : k \in 0..MaxSpan} \cup {U32Zero, U32Max}

Budgets == {U32(0, k) : k \in 0..MaxBudget} \cup {U32Max}

\* the searches of at most MaxLoop iterations
BoundedSearch(ns, ne, mh) ==
    \/ U32Le(mh, U32(0, MaxLoop))
    \/ U32Le(ne, SaturatingAdd(ns, U32(0, MaxLoop)))

\* the variables a call has not touched yet
Untouched ==
    /\ chunk = <<>>
    /\ prefix = <<>>
    /\ end = U32Zero
    /\ block_content = <<>>
    /\ hash_hex = <<>>
    /\ best_hash = <<>>
    /\ best_nonce = U32Zero
    /\ hashes_computed = U32Zero
    /\ examined = <<>>
    /\ result = NoResult
    /\ built = NoResult
    /\ satisfied = FALSE

----------------------------------------------------------------------------
(* mine_range called on a template and a range.                            *)

Init ==
    /\ previous_hash \in PrevHashes
    /\ pool_address \in Addresses
    /\ merkle_root \in MerkleRoots
    /\ timestamp \in Timestamps
    /\ difficulty \in Difficulties
    /\ nonce_start \in NonceStarts
    /\ nonce_end \in NonceEnds(nonce_start)
    /\ max_hashes \in Budgets
    /\ BoundedSearch(nonce_start, nonce_end, max_hashes)
    /\ pc = "call"
    /\ nonce = U32Zero
    /\ Untouched

Next == MineSetup \/ MineIter \/ MineExhausted

Spec == Init /\ [][Next]_vars

----------------------------------------------------------------------------
(* build_block_content called on a template and a nonce.                   *)

\* 0, 1, 0x01020304 and 0xFFFFFFFF
BuildNonces == {U32Zero, U32One, U32(258, 772), U32Max}

BuildDifficulties == Difficulties \cup {45, 70000}

BuildBlockContentCall ==
    /\ pc = "build"
    /\ pc' = "built"
    /\ built' = LET r == build_block_content(previous_hash, pool_address,
                             merkle_root, timestamp, difficulty, nonce)
                IN  IF r.ok THEN [kind |-> "ok", hex |-> r.val]
                    ELSE ErrResult(r.err)
    /\ UNCHANGED <<template, range, locals, result, satisfied>>

InitBuild ==
    /\ previous_hash \in BuildPrevHashes
    /\ pool_address \in Addresses
    /\ merkle_root \in BuildMerkleRoots
    /\ timestamp \in Timestamps
    /\ difficulty \in BuildDifficulties
    /\ nonce \in BuildNonces
    /\ nonce_start = U32Zero
    /\ nonce_end = U32Zero
    /\ max_hashes = U32Zero
    /\ pc = "build"
    /\ Untouched

NextBuild == BuildBlockContentCall

SpecBuild == InitBuild /\ [][NextBuild]_vars

----------------------------------------------------------------------------
(* check_difficulty called on a hash, a chunk and a difficulty.            *)

\* "abcd" and "abce"
CheckHeads == {<<97, 98, 99, 100>>, <<97, 98, 99, 101>>}

\* the heads, alone and followed by one or two hexadecimal digits; "" and "a"
CheckHashes ==
    CheckHeads
    \cup {h \o <<charset[k]>> : h \in CheckHeads, k \in 1..16}
    \cup {h \o <<charset[k], 48>> : h \in CheckHeads, k \in 1..16}
    \cup {<<>>, <<97>>}

\* "", "a", "abcd", "abcd7" and "bcd"
CheckChunks ==
    {<<>>, <<97>>, <<97, 98, 99, 100>>, <<97, 98, 99, 100, 55>>,
     <<98, 99, 100>>}

CheckDifficultyCall ==
    /\ pc = "check"
    /\ pc' = "checked"
    /\ satisfied' = check_difficulty(hash_hex, chunk, difficulty)
    /\ UNCHANGED <<template, range, chunk, prefix, end, nonce, block_content,
                   hash_hex, best_hash, best_nonce, hashes_computed,
                   examined, result, built>>

InitCheck ==
    /\ hash_hex \in CheckHashes
    /\ chunk \in CheckChunks
    /\ difficulty \in 0..MaxCheckDifficulty
    /\ previous_hash = <<>>
    /\ pool_address = <<>>
    /\ merkle_root = <<>>
    /\ timestamp = U32Zero
    /\ nonce_start = U32Zero
    /\ nonce_end = U32Zero
    /\ max_hashes = U32Zero
    /\ nonce = U32Zero
    /\ pc = "check"
    /\ prefix = <<>>
    /\ end = U32Zero
    /\ block_content = <<>>
    /\ best_hash = <<>>
    /\ best_nonce = U32Zero
    /\ hashes_computed = U32Zero
    /\ examined = <<>>
    /\ result = NoResult
    /\ built = NoResult
    /\ satisfied = FALSE

NextCheck == CheckDifficultyCall

SpecCheck == InitCheck /\ [][NextCheck]_vars

----------------------------------------------------------------------------
(* What the properties are stated with.                                    *)

InSearch == pc \in {"loop", "returned"}

Returned == pc = "returned" /\ result.kind = "ok"

Found == Returned /\ result.found

NotFound == Returned /\ ~result.found

\* a - b for b <= a
U32Sub(a, b) ==
    IF a.lo >= b.lo THEN U32(a.hi - b.hi, a.lo - b.lo)
    ELSE U32(a.hi - b.hi - 1, a.lo + Limb - b.lo)

\* the last n characters of s, all of s when it has no more than n
LastChars(s, n) == IF n >= Len(s) THEN s ELSE SubSeq(s, Len(s) - n + 1, Len(s))

\* the least integer c with c >= 16 * (1 - tenths / 10)
ValidCount(tenths) ==
    CHOOSE c \in 0..16 :
        /\ 10 * c >= 16 * (10 - tenths)
        /\ 10 * (c - 1) < 16 * (10 - tenths)

\* the difficulty predicate as the design states it
Satisfies(h, c, diff) ==
    /\ StartsWith(h, c)
    /\ \/ diff % 10 = 0
       \/ /\ diff \div 10 < Len(h)
          /\ \E k \in 1..ValidCount(diff % 10) :
                h[(diff \div 10) + 1] = charset[k]

\* the chunk the design takes from the template
TemplateChunk == LastChars(previous_hash, difficulty \div 10)

\* the digest of the content build_block_content gives for nonce n
TemplateDigest(n) ==
    LET b == build_block_content(previous_hash, pool_address, merkle_root,
                                 timestamp, difficulty, n)
    IN  IF b.ok THEN HexEncode(sha256(HexDecode(b.val).val)) ELSE <<>>

\* h is the smallest of the digests examined, and that of nonce n
IsBest(h, n) ==
    /\ \E i \in 1..Len(examined) :
          examined[i].nonce = n /\ examined[i].hash = h
    /\ \A i \in 1..Len(examined) : ~StrLt(examined[i].hash, h)

----------------------------------------------------------------------------
(* C1: mine_range examines at most max_hashes nonces, each of them in      *)
(* [nonce_start, nonce_end), in every state of the loop and in the result, *)
(* whether the call ends by success or by exhaustion.                      *)
C1_Bounded ==
    /\ hashes_computed = U32(0, Len(examined))
    /\ U32Le(hashes_computed, max_hashes)
    /\ \A i \in 1..Len(examined) :
          /\ U32Le(nonce_start, examined[i].nonce)
          /\ U32Lt(examined[i].nonce, nonce_end)
    /\ Returned => result.hashes_computed = hashes_computed

\* a search that used up its budget of two hashes before the nonce ceiling
C1_Witness ==
    /\ NotFound
    /\ max_hashes = U32(0, 2)
    /\ Len(examined) = 2
    /\ U32Lt(end, nonce_end)

(* C2: a result with found = true carries a hash that satisfies the        *)
(* difficulty predicate for the last floor(difficulty) characters of       *)
(* previous_hash, and that is the digest of the content encoded from the   *)
(* template with the returned nonce.                                       *)
C2_FoundIsValid ==
    Found =>
        /\ Satisfies(result.hash, TemplateChunk, difficulty)
        /\ result.hash = TemplateDigest(result.nonce)

\* a find where floor(difficulty) exceeds the length of previous_hash, the
\* chunk being all of it
C2_Witness ==
    /\ Found
    /\ previous_hash = PrevHashShort
    /\ difficulty = 700
    /\ chunk = PrevHashShort
    /\ Len(examined) >= 2

(* C3 as stated: in every result best_hash is the smallest digest among    *)
(* the nonces examined and best_nonce is an examined nonce with that       *)
(* digest.                                                                 *)
C3_Original == Returned => IsBest(result.best_hash, result.best_nonce)

(* C3: once a nonce has been examined, after each iteration and in the     *)
(* result, found or not, best_hash is the smallest digest among the nonces *)
(* examined and best_nonce is an examined nonce with that digest; while    *)
(* none has been examined best_hash is 64 times "f" and best_nonce is      *)
(* nonce_start.                                                            *)
C3_BestIsMinimum ==
    InSearch =>
        /\ examined # <<>> => IsBest(best_hash, best_nonce)
        /\ examined = <<>> =>
              best_hash = Rep(102, 64) /\ best_nonce = nonce_start
        /\ Returned =>
              /\ result.best_hash = best_hash
              /\ result.best_nonce = best_nonce

\* a find whose winning nonce is not the best one
C3_Witness ==
    /\ Found
    /\ result.best_nonce # result.nonce
    /\ StrLt(result.best_hash, result.hash)
    /\ Len(examined) >= 3

\* nonce_start + max_hashes, held at 2^32 - 1 when it would pass it
C4_Sum ==
    IF U32Lt(U32Sub(U32Max, nonce_start), max_hashes) THEN U32Max
    ELSE WrappingAdd(nonce_start, max_hashes)

\* the bound, the nonces and the count of a search
C4_State ==
    InSearch =>
        /\ end = (IF U32Lt(C4_Sum, nonce_end) THEN C4_Sum ELSE nonce_end)
        /\ \A i \in 1..Len(examined) : U32Le(nonce_start, examined[i].nonce)
        /\ NotFound =>
              hashes_computed = (IF U32Lt(nonce_start, end)
                                 THEN U32Sub(end, nonce_start) ELSE U32Zero)

\* an iteration that does not return moves on to the next nonce, below end
C4_Step ==
    (pc = "loop" /\ pc' = "loop") =>
        /\ U32Lt(nonce, nonce')
        /\ U32Le(nonce', end)
        /\ nonce' = WrappingAdd(nonce_start, U32(0, Len(examined')))

(* C4: end is min(nonce_end, nonce_start + max_hashes) with the sum        *)
(* saturating at 2^32 - 1 instead of wrapping; no nonce below nonce_start  *)
(* is examined; when no nonce wins hashes_computed is                      *)
(* max(0, end - nonce_start); the search terminates: each iteration that   *)
(* does not return moves to the next nonce, which stays within end.        *)
C4_Saturates == []C4_State /\ [][C4_Step]_vars

\* nonce_start = 0xFFFFFFF0 and max_hashes = 0xFFFFFFFF: fifteen nonces,
\* up to 2^32 - 1
C4_Witness ==
    /\ NotFound
    /\ nonce_start = U32(Limb - 1, Limb - 16)
    /\ max_hashes = U32Max
    /\ end = U32Max
    /\ hashes_computed = U32(0, 15)

----------------------------------------------------------------------------
\* an argument the design rejects
InvalidInput ==
    \/ ~string_to_bytes(pool_address).ok
    \/ ~HexDecode(previous_hash).ok
    \/ ~HexDecode(merkle_root).ok

(* C5: an address that is neither hexadecimal nor base58, or a             *)
(* previous_hash or merkle_root that is not hexadecimal, makes mine_range  *)
(* return an error with no nonce examined; no failure comes after the loop *)
(* has started.                                                            *)
C5_ErrorsBeforeLoop ==
    /\ (pc # "call" /\ InvalidInput) =>
          /\ pc = "error"
          /\ result.kind = "err"
          /\ examined = <<>>
          /\ hashes_computed = U32Zero
    /\ pc \in {"error", "panic"} => examined = <<>>

\* 64 hexadecimal characters: 32 bytes
IsHex32(s) == HexDecode(s).ok /\ Len(s) = 64

(* C6: build_block_content (as mine_range) fails with the invalid-field    *)
(* error whenever previous_hash or merkle_root is not hexadecimal of       *)
(* exactly 32 bytes, a well-formed hexadecimal string of another length    *)
(* included.                                                               *)
C6_RejectsWrongLength ==
    (/\ pc = "built"
     /\ string_to_bytes(pool_address).ok
     /\ ~(IsHex32(previous_hash) /\ IsHex32(merkle_root)))
        => /\ built.kind = "err"
           /\ built.msg \in {"Invalid previous_hash", "Invalid merkle_root"}

\* a template of the data model: previous_hash and merkle_root are 64
\* hexadecimal characters, the address decodes, and difficulty x 10 fits the
\* two bytes it is written in
ValidTemplate ==
    /\ IsHex32(previous_hash)
    /\ IsHex32(merkle_root)
    /\ string_to_bytes(pool_address).ok
    /\ difficulty < 2^16

\* the byte of weight 256^k of a u32, k in 0..3
U32Byte(a, k) ==
    IF k < 2 THEN (a.lo \div (256^k)) % 256 ELSE (a.hi \div (256^(k - 2))) % 256

\* the layout of the block content, field by field
Layout(addr_bytes, n) ==
    (IF Len(addr_bytes) = 33 THEN <<2>> ELSE <<>>)
    \o HexDecode(previous_hash).val
    \o addr_bytes
    \o HexDecode(merkle_root).val
    \o [k \in 1..4 |-> U32Byte(timestamp, k - 1)]
    \o <<difficulty % 256, difficulty \div 256>>
    \o [k \in 1..4 |-> U32Byte(n, k - 1)]

(* C7: for a valid template and nonce build_block_content returns the hex  *)
(* rendering of: 0x02 if and only if the decoded address has 33 bytes, the *)
(* 32 previous_hash bytes, the address bytes, the 32 merkle_root bytes,    *)
(* timestamp (4 bytes, little-endian), difficulty x 10 (2 bytes,           *)
(* little-endian), nonce (4 bytes, little-endian); 74 + |address| bytes,   *)
(* one more for a 33-byte address.                                         *)
C7_Layout ==
    (pc = "built" /\ ValidTemplate) =>
        LET a == string_to_bytes(pool_address).val
        IN  /\ built.kind = "ok"
            /\ built.hex = HexEncode(Layout(a, nonce))
            /\ Len(built.hex) =
                  2 * (32 + Len(a) + 32 + 4 + 2 + 4
                       + (IF Len(a) = 33 THEN 1 ELSE 0))
            /\ Len(a) = 33 <=> SubSeq(built.hex, 1, 2) = <<48, 50>>
            /\ Len(a) # 33 => SubSeq(built.hex, 1, 64) = previous_hash

\* a 33-byte address: the content starts with "02", then previous_hash
C7_Witness ==
    /\ pc = "built"
    /\ ValidTemplate
    /\ Len(string_to_bytes(pool_address).val) = 33
    /\ built.kind = "ok"
    /\ Len(built.hex) = 2 * 108
    /\ SubSeq(built.hex, 1, 2) = <<48, 50>>
    /\ SubSeq(built.hex, 3, 66) = previous_hash
    /\ nonce = U32(258, 772)
    /\ SubSeq(built.hex, 209, 216) = <<48, 52, 48, 51, 48, 50, 48, 49>>

(* C8: check_difficulty is false when hash_hex does not start with chunk;  *)
(* when it does and the fractional part of difficulty is 0 it is true;     *)
(* when the fractional part d is above 0 it is true exactly when the       *)
(* character at index floor(difficulty) exists and is among the first      *)
(* ceil(16 x (1 - d)) characters of "0123456789abcdef" (4.5: the 5th       *)
(* character in "01234567"; 4.0: any 5th character).                       *)
C8_Predicate ==
    pc = "checked" =>
        /\ satisfied = Satisfies(hash_hex, chunk, difficulty)
        /\ ~StartsWith(hash_hex, chunk) => ~satisfied
        /\ (StartsWith(hash_hex, chunk) /\ difficulty = 40) => satisfied
        /\ (StartsWith(hash_hex, chunk) /\ difficulty = 45) =>
              (satisfied <=> (Len(hash_hex) >= 5 /\ hash_hex[5] \in 48..55))

\* difficulty 4.5, chunk "abcd", hash "abcd7": satisfied by the last of the
\* eight characters allowed
C8_Witness ==
    /\ pc = "checked"
    /\ difficulty = 45
    /\ chunk = <<97, 98, 99, 100>>
    /\ hash_hex = <<97, 98, 99, 100, 55>>
    /\ satisfied

(* C9: the content mine_range hashes for a nonce is the content            *)
(* build_block_content returns for the same template and nonce, and the    *)
(* two reject the same templates.                                          *)
C9_SameContent ==
    LET b == build_block_content(previous_hash, pool_address, merkle_root,
                 timestamp, difficulty,
                 IF examined = <<>> THEN nonce_start
                 ELSE examined[Len(examined)].nonce)
    IN  /\ InSearch => b.ok
        /\ (InSearch /\ examined # <<>>) =>
              /\ b.val = HexEncode(block_content)
              /\ SubSeq(block_content, 1, Len(prefix)) = prefix
              /\ examined[Len(examined)].hash = HexEncode(sha256(block_content))
        /\ pc = "error" => (~b.ok /\ b.err = result.msg)
        /\ pc = "panic" => ~b.ok

\* a search over a template with a 33-byte address, two nonces examined
C9_Witness ==
    /\ Found
    /\ Len(examined) >= 2
    /\ Len(block_content) = 108
    /\ block_content[1] = 2
    /\ HexEncode(block_content) =
          build_block_content(previous_hash, pool_address, merkle_root,
                              timestamp, difficulty, result.nonce).val

\* no nonce examined satisfies the predicate, but possibly the last one
NoneBeforeLast ==
    \A i \in 1..(Len(examined) - 1) :
        ~Satisfies(examined[i].hash, TemplateChunk, difficulty)

(* C10: nonces are examined in increasing order from nonce_start; a found  *)
(* result carries the smallest nonce of [nonce_start, end) that satisfies  *)
(* the predicate, with hashes_computed = nonce - nonce_start + 1 and no    *)
(* later nonce examined; a result that is not found comes only when no     *)
(* nonce of [nonce_start, end) satisfies it, and carries best_nonce and    *)
(* best_hash.                                                              *)
C10_FirstWinner ==
    InSearch =>
        /\ \A i \in 1..Len(examined) :
              examined[i].nonce = WrappingAdd(nonce_start, U32(0, i - 1))
        /\ examined # <<>> =>
              examined[Len(examined)].hash =
                  TemplateDigest(examined[Len(examined)].nonce)
        /\ NoneBeforeLast
        /\ pc = "loop" =>
              (examined # <<>> =>
                  ~Satisfies(examined[Len(examined)].hash, TemplateChunk,
                             difficulty))
        /\ Found =>
              /\ result.nonce = examined[Len(examined)].nonce
              /\ result.hash = examined[Len(examined)].hash
              /\ Satisfies(result.hash, TemplateChunk, difficulty)
              /\ U32Lt(result.nonce, end)
              /\ result.hashes_computed =
                    WrappingAdd(U32Sub(result.nonce, nonce_start), U32One)
        /\ NotFound =>
              /\ \A i \in 1..Len(examined) :
                    ~Satisfies(examined[i].hash, TemplateChunk, difficulty)
              /\ U32(0, Len(examined)) =
                    (IF U32Lt(nonce_start, end)
                     THEN U32Sub(end, nonce_start) ELSE U32Zero)
              /\ result.nonce = result.best_nonce
              /\ result.hash = result.best_hash

\* a find at the fifth nonce examined, with nonces left below end
C10_Witness ==
    /\ Found
    /\ Len(examined) = 5
    /\ result.nonce = WrappingAdd(nonce_start, U32(0, 4))
    /\ result.hashes_computed = U32(0, 5)
    /\ U32Lt(WrappingAdd(result.nonce, U32One), end)

====
